---------------------------- MODULE Spec2Model ----------------------------
(***************************************************************************)
(* GrameenCredit: the alternative credit scoring engine                    *)
(* (server/services/creditScoringService.js) and the CreditAnalysis        *)
(* document it fills in (server/models/CreditAnalysis.js).                 *)
(*                                                                         *)
(* Numbers.  JavaScript numbers are modelled by integers plus the value    *)
(* NaN.  Arithmetic is exact rational arithmetic: IEEE rounding error is   *)
(* not modelled.  Where the code produces a real that is not an integer    *)
(* (a square root, a quotient) the model keeps the integer below it; the   *)
(* only comparisons the code makes on such values are "< k" with k an      *)
(* integer, which the integer below decides exactly.  Weights are kept in  *)
(* hundredths (0.25 is 25) and the confidence level in hundredths.         *)
(*                                                                         *)
(* Lists of records are run-length lists: <<[rec |-> r, n |-> 3]>> is a    *)
(* list of three records equal to r.                                       *)
(*                                                                         *)
(* The helpers calculateFinancialStabilityScore,                           *)
(* calculateSocialSignalsScore, calculateUPIRegularity,                    *)
(* calculateRechargeConsistency, extractMerchant, isSalaryCredit,          *)
(* identifyRecurringPayments, categorizeMerchant and get*DateRange are     *)
(* called by creditScoringService.js and defined nowhere under src/.  They *)
(* are modelled from the specification as total, deterministic functions.  *)
(* Where the specification gives no formula the value the helper returns   *)
(* on an input is a field of that input (userData.helper), so that every   *)
(* value in the helper's declared range is covered.                        *)
(***************************************************************************)
EXTENDS Integers, Sequences, FiniteSets, TLC

VARIABLES
    db,     \* the CreditAnalysis collection: userId -> the documents stored for it
    inv,    \* per user, the calculateAlternativeCreditScore call in flight or last ended
    doc,    \* a CreditAnalysis document whose methods are called directly
    ext,    \* a direct call of one of the exported or internal functions
    web,    \* the User document, the Loan collection and the last request served
    otpCache,   \* smsService.js: phoneNumber -> the OTP stored for it, or Undefined
    otpLog,     \* per phone, the sendOTP calls in flight, the OTP stored last, the
                \* verifyOTP calls it passed and the last call
    syncQueue,  \* offlineManager.syncQueue: sync key -> the item queued under it
    syncService,    \* SyncService.isOnline, and the clock the sync keys are made from
    syncLog,    \* per sync key, what happened to the item queued under it
    auth,       \* per phone, the User registered under it and what its requests did
    shortCache, mediumCache, longCache  \* middleware/cache.js: the keys each holds

\* The state of the scoring engine and its routes, and the state of the
\* services around them.
engine == <<db, inv, doc, ext, web>>
smsService == <<otpCache, otpLog>>
sync == <<syncQueue, syncService, syncLog>>
caches == <<shortCache, mediumCache, longCache>>
service == <<smsService, sync, auth, caches>>

vars == <<db, inv, doc, ext, web, otpCache, otpLog, syncQueue, syncService, syncLog, auth,
          shortCache, mediumCache, longCache>>

\* JavaScript's undefined, for a string or a list; NaN and undefined where a
\* number is expected (every number the engine handles is >= 0 but a flag's
\* impact, which nothing reads).
Undefined == "undefined"
\* A message field that holds no string.
NoMessage == <<Undefined>>
NaN == 0 - 1
NoNumber == 0 - 2

IsNum(x) == x >= 0

Min(a, b) == IF a <= b THEN a ELSE b
Max(a, b) == IF a >= b THEN a ELSE b

\* Math.round(p / q) for p >= 0, q > 0: halves go up.
RoundDiv(p, q) == (2 * p + q) \div (2 * q)

\* The mean cut to the integer below in place of Math.round.
RoundMeanDown(a, b) == IF IsNum(a) /\ IsNum(b) THEN (a + b) \div 2 ELSE NaN

\* Math.round((a + b) / 2), NaN when an operand is NaN.
RoundMean(a, b) == IF IsNum(a) /\ IsNum(b) THEN RoundDiv(a + b, 2) ELSE NaN

\* Math.max(0, Math.min(100, 100 - k * Math.sqrt(D) / T)) for T > 0, D >= 0,
\* to the integer below: 100 - c for the least c with c >= k * sqrt(D) / T.
ClampedSpread(k, D, T) ==
    LET fits == {c \in 0..100 : (c * T) * (c * T) >= k * k * D}
    IN  IF fits = {} THEN 0
        ELSE 100 - (CHOOSE c \in fits : \A d \in fits : c <= d)

-----------------------------------------------------------------------------
(* Run-length lists *)

RECURSIVE ListLen(_)
ListLen(l) == IF l = <<>> THEN 0 ELSE Head(l).n + ListLen(Tail(l))

\* smsData.length of a list that may be absent (userData.smsData?.length || 0).
LenOrZero(l) == IF l = Undefined THEN 0 ELSE ListLen(l)

RECURSIVE SumOver(_, _)
SumOver(S, f) ==
    IF S = {} THEN 0
    ELSE LET x == CHOOSE y \in S : TRUE
         IN  f[x] + SumOver(S \ {x}, f)

-----------------------------------------------------------------------------
(* SMS messages: a message is a sequence of words.  A number is a word of   *)
(* NumVal's domain; NumVal is parseFloat on it.                             *)

NumVal == ("0" :> 0) @@ ("1" :> 1) @@ ("2" :> 2) @@ ("3" :> 3)

MerchantWords == {"AMAZON", "SWIGGY", "ACME"}

\* The index of the first "Rs <number>" at or after position i, 0 when none:
\* the leftmost match of /Rs\.?\s*(\d+(?:,\d+)*(?:\.\d+)?)/i.
RECURSIVE RsAt(_, _)
RsAt(message, i) ==
    IF i >= Len(message) THEN 0
    ELSE IF message[i] = "Rs" /\ message[i + 1] \in DOMAIN NumVal THEN i
    ELSE RsAt(message, i + 1)

RECURSIVE WordAt(_, _, _)
WordAt(message, w, i) ==
    IF i > Len(message) THEN 0
    ELSE IF message[i] = w THEN i
    ELSE WordAt(message, w, i + 1)

Includes(message, w) == WordAt(message, w, 1) # 0

parseAmount(message) ==
    LET i == RsAt(message, 1)
    IN  IF i # 0 THEN NumVal[message[i + 1]] ELSE 0

determineTransactionType(message) ==
    IF Includes(message, "credited") \/ Includes(message, "received") THEN "credit"
    ELSE IF Includes(message, "debited") \/ Includes(message, "paid") THEN "debit"
    ELSE "unknown"

\* /balance.*?Rs\.?\s*(\d+...)/i: the first amount after the first "balance".
extractBalance(message) ==
    LET b == WordAt(message, "balance", 1)
        i == IF b = 0 THEN 0 ELSE RsAt(message, b + 1)
    IN  IF i # 0 THEN NumVal[message[i + 1]] ELSE NoNumber

\* Not under src/.  The merchant named in the text, absent when none is.
extractMerchant(message) ==
    LET hits == {i \in 1..Len(message) : message[i] \in MerchantWords}
    IN  IF hits = {} THEN Undefined
        ELSE message[CHOOSE i \in hits : \A j \in hits : i <= j]

\* Not under src/.  A credit labelled as salary.
isSalaryCredit(message, amount) == Includes(message, "salary") /\ amount > 0

\* Not under src/.  Merchants paid the same amount at least twice.
identifyRecurringPayments(smsData) ==
    LET paid(m, a) == {i \in 1..Len(smsData) :
                          /\ extractMerchant(smsData[i].rec.message) = m
                          /\ parseAmount(smsData[i].rec.message) = a
                          /\ determineTransactionType(smsData[i].rec.message) = "debit"}
        times(m, a) == SumOver(paid(m, a), [i \in paid(m, a) |-> smsData[i].n])
    IN  {m \in MerchantWords :
            \E i \in 1..Len(smsData) :
                times(m, parseAmount(smsData[i].rec.message)) >= 2}

-----------------------------------------------------------------------------
(* The SMS extractor *)

\* balances: a run-length list of [v, n].
calculateBalanceStability(balances) ==
    LET idx == 1..Len(balances)
        N == SumOver(idx, [i \in idx |-> balances[i].n])
        T == SumOver(idx, [i \in idx |-> balances[i].n * balances[i].v])
        Q == SumOver(idx, [i \in idx |-> balances[i].n * balances[i].v * balances[i].v])
    IN  IF N < 2 THEN 50
        ELSE IF T = 0 THEN NaN          \* mean 0: Math.sqrt(0) / 0
        ELSE ClampedSpread(100, N * Q - T * T, T)

\* monthlyTransactions: month -> count, months without a record left out.
calculateRegularityScore(monthlyTransactions) ==
    LET months == DOMAIN monthlyTransactions
        M == Cardinality(months)
        T == SumOver(months, monthlyTransactions)
        Q == SumOver(months, [m \in months |-> monthlyTransactions[m] * monthlyTransactions[m]])
    IN  IF M < 2 THEN 30
        ELSE ClampedSpread(50, M * Q - T * T, T)

getDefaultSMSAnalysis ==
    [totalTransactions |-> 0, creditTransactions |-> 0, debitTransactions |-> 0,
     averageBalance |-> 0, balanceStability |-> 30, regularityScore |-> 30,
     merchantDiversity |-> 20, salaryCredits |-> {}, recurringPayments |-> {}]

\* A record the loop throws a TypeError on: message.match of an absent
\* message (parseAmount), or toISOString of an absent date.
SmsRecordThrows(sms) == sms.message = NoMessage \/ sms.date = NoNumber

SmsLoop(smsData) ==
    LET idx == 1..Len(smsData)
        msg(i) == smsData[i].rec.message
        ofType(t) == {i \in idx : determineTransactionType(msg(i)) = t}
        count(S) == SumOver(S, [i \in S |-> smsData[i].n])
        withBal == {i \in idx : extractBalance(msg(i)) # NoNumber}
        balances == [k \in 1..Len(smsData) |->
                        [v |-> IF k \in withBal THEN extractBalance(msg(k)) ELSE 0,
                         n |-> IF k \in withBal THEN smsData[k].n ELSE 0]]
        nBal == count(withBal)
        totalBalance == SumOver(withBal, [i \in withBal |-> smsData[i].n * extractBalance(msg(i))])
        merchants == {extractMerchant(msg(i)) : i \in idx} \ {Undefined}
        months == {smsData[i].rec.date : i \in idx}
        monthly == [m \in months |-> count({i \in idx : smsData[i].rec.date = m})]
        salary == {i \in ofType("credit") : isSalaryCredit(msg(i), parseAmount(msg(i)))}
    IN  [totalTransactions |-> ListLen(smsData),
         creditTransactions |-> count(ofType("credit")),
         debitTransactions |-> count(ofType("debit")),
         averageBalance |-> IF nBal > 0 THEN totalBalance \div nBal ELSE 0,
         balanceStability |-> calculateBalanceStability(balances),
         regularityScore |-> calculateRegularityScore(monthly),
         merchantDiversity |-> Min(Cardinality(merchants) * 10, 100),
         salaryCredits |-> {[amount |-> parseAmount(msg(k)), date |-> smsData[k].rec.date,
                             source |-> extractMerchant(msg(k))] : k \in salary},
         recurringPayments |-> identifyRecurringPayments(smsData)]

analyzeSMSTransactions(smsData) ==
    IF smsData = Undefined \/ smsData = <<>> THEN getDefaultSMSAnalysis
    ELSE IF \E i \in 1..Len(smsData) : SmsRecordThrows(smsData[i].rec)
         THEN getDefaultSMSAnalysis          \* the catch block
    ELSE SmsLoop(smsData)

-----------------------------------------------------------------------------
(* The UPI extractor.  A UPI record is [month, hour, day, amount, merchant]: *)
(* month, hour and day (getDay, 0 is Sunday) are read off its timestamp,     *)
(* and month is NoNumber when the record has no Date as timestamp.           *)

\* Not under src/.  A keyword table, "other" for a merchant it does not know.
categorizeMerchant(merchant) ==
    IF merchant = "SWIGGY" THEN "food"
    ELSE IF merchant = "AMAZON" THEN "shopping"
    ELSE "other"

\* Not under src/.  The dispersion of the per-month counts, by the formula the
\* SMS extractor uses for them.
calculateUPIRegularity(upiData) ==
    LET idx == 1..Len(upiData)
        months == {upiData[i].rec.month : i \in idx}
    IN  calculateRegularityScore(
            [m \in months |->
                SumOver({i \in idx : upiData[i].rec.month = m}, [i \in idx |-> upiData[i].n])])

\* A default summary with zero scores in place of getDefaultUPIAnalysis.
getDefaultUPIAnalysisZero ==
    [monthlyTransactionCount |-> 0, averageTransactionAmount |-> 0, totalVolume |-> 0,
     paymentRegularity |-> 0, digitalFootprintScore |-> 0, merchantCategories |-> {},
     peakTransactionHours |-> <<>>, weekdayVsWeekendRatio |-> 0]

getDefaultUPIAnalysis ==
    [monthlyTransactionCount |-> 0, averageTransactionAmount |-> 0, totalVolume |-> 0,
     paymentRegularity |-> 30, digitalFootprintScore |-> 20, merchantCategories |-> {},
     peakTransactionHours |-> <<>>, weekdayVsWeekendRatio |-> 0]

\* transaction.timestamp.getHours() of a record without a Date.
UpiRecordThrows(transaction) == transaction.month = NoNumber

\* hourCounts.map(...).sort((a, b) => b.count - a.count).slice(0, 3): the
\* sort is stable, so hours with equal counts stay in ascending order, and
\* the hours without a transaction follow the others.
RECURSIVE Ranked(_, _)
Ranked(hourCounts, left) ==
    IF left = {} THEN <<>>
    ELSE LET h == CHOOSE x \in left : \A y \in left :
                      \/ hourCounts[x] > hourCounts[y]
                      \/ hourCounts[x] = hourCounts[y] /\ x <= y
         IN  <<h>> \o Ranked(hourCounts, left \ {h})

RECURSIVE Ascending(_, _)
Ascending(h, without) ==
    IF h > 23 THEN <<>>
    ELSE (IF h \in without THEN <<>> ELSE <<h>>) \o Ascending(h + 1, without)

PeakHours(hourCounts, k) ==
    LET busy == DOMAIN hourCounts
    IN  SubSeq(Ranked(hourCounts, busy) \o Ascending(0, busy), 1, k)

UpiLoop(upiData) ==
    LET idx == 1..Len(upiData)
        count(S) == SumOver(S, [i \in idx |-> upiData[i].n])
        amountOf(S) == SumOver(S, [i \in idx |-> upiData[i].n * upiData[i].rec.amount])
        \* totalAmount += transaction.amount: NaN once an amount is absent.
        sound(S) == \A i \in S : IsNum(upiData[i].rec.amount)
        totalAmount == IF sound(idx) THEN amountOf(idx) ELSE NaN
        inCat(c) == {i \in idx : categorizeMerchant(upiData[i].rec.merchant) = c}
        cats == {categorizeMerchant(upiData[i].rec.merchant) : i \in idx}
        \* the hours with a transaction; the others count 0
        hourCounts == [h \in {upiData[i].rec.hour : i \in idx} |->
                          count({i \in idx : upiData[i].rec.hour = h})]
        weekend == count({i \in idx : upiData[i].rec.day \in {0, 6}})
        weekday == count({i \in idx : upiData[i].rec.day \notin {0, 6}})
        len == ListLen(upiData)
    IN  [monthlyTransactionCount |-> RoundDiv(len, 3),
         averageTransactionAmount |-> IF IsNum(totalAmount) THEN totalAmount \div len ELSE NaN,
         totalVolume |-> totalAmount,
         paymentRegularity |-> calculateUPIRegularity(upiData),
         digitalFootprintScore |-> Min(len * 2, 100),
         merchantCategories |->
             {[category |-> c, transactionCount |-> count(inCat(c)),
               totalAmount |-> IF sound(inCat(c)) THEN amountOf(inCat(c)) ELSE NaN] : c \in cats},
         peakTransactionHours |-> PeakHours(hourCounts, 3),
         \* weekendCount / weekdayCount, in hundredths
         weekdayVsWeekendRatio |-> IF weekday > 0 THEN (100 * weekend) \div weekday ELSE 0]

analyzeUPITransactions(upiData) ==
    IF upiData = Undefined \/ upiData = <<>> THEN getDefaultUPIAnalysis
    ELSE IF \E i \in 1..Len(upiData) : UpiRecordThrows(upiData[i].rec)
         THEN getDefaultUPIAnalysis          \* the catch block
    ELSE UpiLoop(upiData)

-----------------------------------------------------------------------------
(* The mobile-usage extractor.  A record is [type, amount, month].           *)

\* Not under src/.  The regularity of the recharges over the months, by the
\* formula of the SMS extractor.
calculateRechargeConsistency(recharges) ==
    LET idx == 1..Len(recharges)
        months == {recharges[i].rec.month : i \in idx}
    IN  calculateRegularityScore(
            [m \in months |->
                SumOver({i \in idx : recharges[i].rec.month = m}, [i \in idx |-> recharges[i].n])])

getDefaultMobileAnalysis ==
    [rechargeFrequency |-> 0, averageRechargeAmount |-> 0, planType |-> "unknown",
     dataUsagePattern |-> "low", consistencyScore |-> 30]

MobileLoop(mobileData) ==
    LET recharges == SelectSeq(mobileData, LAMBDA item : item.rec.type = "recharge")
        idx == 1..Len(recharges)
        sound == \A i \in idx : IsNum(recharges[i].rec.amount)
        totalAmount == IF sound
                       THEN SumOver(idx, [i \in idx |-> recharges[i].n * recharges[i].rec.amount])
                       ELSE NaN
        len == ListLen(recharges)
        average == IF IsNum(totalAmount) THEN totalAmount \div len ELSE NaN
    IN  IF len > 0
        THEN [rechargeFrequency |-> len,
              averageRechargeAmount |-> average,
              planType |-> IF IsNum(average) /\ totalAmount > 500 * len THEN "postpaid"
                           ELSE IF IsNum(average) /\ totalAmount < 100 * len THEN "prepaid"
                           ELSE "unknown",
              dataUsagePattern |-> "medium",
              consistencyScore |-> calculateRechargeConsistency(recharges)]
        ELSE [rechargeFrequency |-> 0, averageRechargeAmount |-> 0, planType |-> "unknown",
              dataUsagePattern |-> "medium", consistencyScore |-> 0]

\* analyzeMobileUsage without the test of the list's length.
analyzeMobileUsageAnyLength(mobileData) ==
    IF mobileData = Undefined THEN getDefaultMobileAnalysis ELSE MobileLoop(mobileData)

analyzeMobileUsage(mobileData) ==
    IF mobileData = Undefined \/ mobileData = <<>> THEN getDefaultMobileAnalysis
    ELSE MobileLoop(mobileData)

-----------------------------------------------------------------------------
(* The component scorer.  userData is [smsData, upiData, mobileData, helper]; *)
(* helper.financial and helper.social are what the two helpers that are not  *)
(* under src/ return on this userData and its summaries (monthlyIncome and    *)
(* occupation are read by nothing else).                                      *)

ComponentNames ==
    <<"transactionBehavior", "paymentRegularity", "digitalEngagement",
      "financialStability", "socialSignals">>

\* Not under src/.  A score in 0..100 derived from the balance level and the
\* income.
calculateFinancialStabilityScore(smsAnalysis, userData) == userData.helper.financial

\* Not under src/.  A score in 0..100 derived from the timing of the UPI
\* transactions and the mobile usage.
calculateSocialSignalsScore(upiAnalysis, mobileAnalysis, userData) == userData.helper.social

\* calculateScoreComponents with another weight for the last component.
calculateScoreComponentsReweighted(smsAnalysis, upiAnalysis, mobileAnalysis, userData) ==
    [transactionBehavior |->
        [score |-> RoundMean(smsAnalysis.regularityScore, upiAnalysis.paymentRegularity),
         weight |-> 25],
     paymentRegularity |->
        [score |-> RoundMean(smsAnalysis.balanceStability, mobileAnalysis.consistencyScore),
         weight |-> 20],
     digitalEngagement |->
        [score |-> RoundMean(upiAnalysis.digitalFootprintScore, smsAnalysis.merchantDiversity),
         weight |-> 20],
     financialStability |->
        [score |-> calculateFinancialStabilityScore(smsAnalysis, userData), weight |-> 25],
     socialSignals |->
        [score |-> calculateSocialSignalsScore(upiAnalysis, mobileAnalysis, userData),
         weight |-> 20]]

\* calculateScoreComponents with the first mean left as a sum.
calculateScoreComponentsSummed(smsAnalysis, upiAnalysis, mobileAnalysis, userData) ==
    [transactionBehavior |->
        [score |-> smsAnalysis.regularityScore + upiAnalysis.paymentRegularity, weight |-> 25],
     paymentRegularity |->
        [score |-> RoundMean(smsAnalysis.balanceStability, mobileAnalysis.consistencyScore),
         weight |-> 20],
     digitalEngagement |->
        [score |-> RoundMean(upiAnalysis.digitalFootprintScore, smsAnalysis.merchantDiversity),
         weight |-> 20],
     financialStability |->
        [score |-> calculateFinancialStabilityScore(smsAnalysis, userData), weight |-> 25],
     socialSignals |->
        [score |-> calculateSocialSignalsScore(upiAnalysis, mobileAnalysis, userData),
         weight |-> 10]]

calculateScoreComponents(smsAnalysis, upiAnalysis, mobileAnalysis, userData) ==
    [transactionBehavior |->
        [score |-> RoundMean(smsAnalysis.regularityScore, upiAnalysis.paymentRegularity),
         weight |-> 25],
     paymentRegularity |->
        [score |-> RoundMean(smsAnalysis.balanceStability, mobileAnalysis.consistencyScore),
         weight |-> 20],
     digitalEngagement |->
        [score |-> RoundMean(upiAnalysis.digitalFootprintScore, smsAnalysis.merchantDiversity),
         weight |-> 20],
     financialStability |->
        [score |-> calculateFinancialStabilityScore(smsAnalysis, userData), weight |-> 25],
     socialSignals |->
        [score |-> calculateSocialSignalsScore(upiAnalysis, mobileAnalysis, userData),
         weight |-> 10]]

-----------------------------------------------------------------------------
(* The CreditAnalysis document and its methods.  analysisDate and the date   *)
(* ranges of dataSourcesUsed are left out: nothing reads them.               *)

NoRecommendation ==
    [assigned |-> FALSE, eligible |-> FALSE, maxLoanAmount |-> NoNumber,
     recommendedAmount |-> NoNumber, suggestedInterestRate |-> NoNumber,
     maxTenure |-> NoNumber, conditions |-> <<>>]

\* new CreditAnalysis({ userId }): the schema's defaults, the paths without a
\* default undefined, the arrays empty.
NewCreditAnalysis(userId) ==
    [userId |-> userId,
     smsAnalysis |-> [totalTransactions |-> 0, creditTransactions |-> 0,
                      debitTransactions |-> 0, averageBalance |-> 0, balanceStability |-> 0,
                      regularityScore |-> 0, merchantDiversity |-> 0, salaryCredits |-> {},
                      recurringPayments |-> {}],
     upiAnalysis |-> [monthlyTransactionCount |-> 0, averageTransactionAmount |-> 0,
                      totalVolume |-> 0, paymentRegularity |-> 0, digitalFootprintScore |-> 0,
                      merchantCategories |-> {}, peakTransactionHours |-> <<>>,
                      weekdayVsWeekendRatio |-> NoNumber],
     mobileUsage |-> [rechargeFrequency |-> 0, averageRechargeAmount |-> 0,
                      planType |-> "unknown", dataUsagePattern |-> "medium",
                      consistencyScore |-> 0],
     creditScoreComponents |->
         [k \in {ComponentNames[i] : i \in 1..Len(ComponentNames)} |->
             [score |-> NoNumber, weight |-> NoNumber]],
     alternativeCreditScore |-> NoNumber,
     confidenceLevel |-> NoNumber,
     riskCategory |-> Undefined,
     dataSourcesUsed |-> <<>>,
     redFlags |-> <<>>,
     positiveIndicators |-> <<>>,
     loanRecommendation |-> NoRecommendation]

\* if (component.score && component.weight): 0, NaN and undefined are falsy.
Truthy(x) == IsNum(x) /\ x # 0

Counted(components) ==
    {i \in 1..Len(ComponentNames) :
        Truthy(components[ComponentNames[i]].score) /\ Truthy(components[ComponentNames[i]].weight)}

\* 100 * weightedScore and 100 * totalWeight of the forEach loop.
WeightedScore(components) ==
    SumOver(Counted(components),
            [i \in 1..Len(ComponentNames) |->
                components[ComponentNames[i]].score * components[ComponentNames[i]].weight])

TotalWeight(components) ==
    SumOver(Counted(components),
            [i \in 1..Len(ComponentNames) |-> components[ComponentNames[i]].weight])

\* The value calculateCreditScore returns.
CreditScoreValue(d) ==
    LET W == WeightedScore(d.creditScoreComponents)
        T == TotalWeight(d.creditScoreComponents)
    IN  IF T = 0 THEN 300 ELSE RoundDiv(300 * T + 6 * W, T)

\* The document calculateCreditScore leaves: untouched when no component counts.
calculateCreditScore(d) ==
    IF TotalWeight(d.creditScoreComponents) = 0 THEN d
    ELSE [d EXCEPT !.alternativeCreditScore = CreditScoreValue(d)]

\* determineRiskCategory with the upper threshold exclusive.
RiskOfAbove(score) ==
    IF IsNum(score) /\ score > 750 THEN "low"
    ELSE IF IsNum(score) /\ score >= 600 THEN "medium"
    ELSE "high"

RiskOf(score) ==
    IF IsNum(score) /\ score >= 750 THEN "low"
    ELSE IF IsNum(score) /\ score >= 600 THEN "medium"
    ELSE "high"

determineRiskCategory(d) == [d EXCEPT !.riskCategory = RiskOf(d.alternativeCreditScore)]

\* generateLoanRecommendation with the upper threshold exclusive.
RecommendationOfAbove(score, risk, redFlags) ==
    IF IsNum(score) /\ score >= 600
    THEN LET tier == IF score > 750 THEN <<100000, 50000, 12, 24>>
                     ELSE IF score >= 650 THEN <<50000, 25000, 15, 18>>
                     ELSE <<25000, 15000, 18, 12>>
         IN  [assigned |-> TRUE, eligible |-> TRUE, maxLoanAmount |-> tier[1],
              recommendedAmount |-> tier[2], suggestedInterestRate |-> tier[3],
              maxTenure |-> tier[4],
              conditions |->
                  (IF Len(redFlags) > 0 THEN <<"Additional verification required">> ELSE <<>>)
                  \o (IF risk = "medium" THEN <<"Regular monitoring of repayment">> ELSE <<>>)]
    ELSE [assigned |-> TRUE, eligible |-> FALSE, maxLoanAmount |-> 0, recommendedAmount |-> 0,
          suggestedInterestRate |-> 24, maxTenure |-> 6,
          conditions |-> <<"Credit score too low for loan approval",
                           "Consider building credit history">>]

RecommendationOf(score, risk, redFlags) ==
    IF IsNum(score) /\ score >= 600
    THEN LET tier == IF score >= 750 THEN <<100000, 50000, 12, 24>>
                     ELSE IF score >= 650 THEN <<50000, 25000, 15, 18>>
                     ELSE <<25000, 15000, 18, 12>>
         IN  [assigned |-> TRUE, eligible |-> TRUE, maxLoanAmount |-> tier[1],
              recommendedAmount |-> tier[2], suggestedInterestRate |-> tier[3],
              maxTenure |-> tier[4],
              conditions |->
                  (IF Len(redFlags) > 0 THEN <<"Additional verification required">> ELSE <<>>)
                  \o (IF risk = "medium" THEN <<"Regular monitoring of repayment">> ELSE <<>>)]
    ELSE [assigned |-> TRUE, eligible |-> FALSE, maxLoanAmount |-> 0, recommendedAmount |-> 0,
          suggestedInterestRate |-> 24, maxTenure |-> 6,
          conditions |-> <<"Credit score too low for loan approval",
                           "Consider building credit history">>]

generateLoanRecommendation(d) ==
    [d EXCEPT !.loanRecommendation =
        RecommendationOf(d.alternativeCreditScore, d.riskCategory, d.redFlags)]

-----------------------------------------------------------------------------
(* Signals and confidence *)

\* identifyRedFlags with the first threshold inclusive.
identifyRedFlagsInclusive(smsAnalysis, upiAnalysis, mobileAnalysis) ==
    (IF IsNum(smsAnalysis.balanceStability) /\ smsAnalysis.balanceStability <= 30
     THEN <<[type |-> "low_balance_stability", severity |-> "high",
             description |-> "Highly volatile account balance", impact |-> 0 - 20]>>
     ELSE <<>>)
    \o
    (IF IsNum(upiAnalysis.digitalFootprintScore) /\ upiAnalysis.digitalFootprintScore < 20
     THEN <<[type |-> "low_digital_usage", severity |-> "medium",
             description |-> "Limited digital payment activity", impact |-> 0 - 10]>>
     ELSE <<>>)

identifyRedFlags(smsAnalysis, upiAnalysis, mobileAnalysis) ==
    (IF IsNum(smsAnalysis.balanceStability) /\ smsAnalysis.balanceStability < 30
     THEN <<[type |-> "low_balance_stability", severity |-> "high",
             description |-> "Highly volatile account balance", impact |-> 0 - 20]>>
     ELSE <<>>)
    \o
    (IF IsNum(upiAnalysis.digitalFootprintScore) /\ upiAnalysis.digitalFootprintScore < 20
     THEN <<[type |-> "low_digital_usage", severity |-> "medium",
             description |-> "Limited digital payment activity", impact |-> 0 - 10]>>
     ELSE <<>>)

identifyPositiveIndicators(smsAnalysis, upiAnalysis, mobileAnalysis) ==
    (IF smsAnalysis.salaryCredits # {}
     THEN <<[type |-> "regular_salary", strength |-> "high",
             description |-> "Regular salary credits detected", impact |-> 25]>>
     ELSE <<>>)
    \o
    (IF IsNum(upiAnalysis.digitalFootprintScore) /\ upiAnalysis.digitalFootprintScore > 70
     THEN <<[type |-> "high_digital_engagement", strength |-> "medium",
             description |-> "Strong digital payment adoption", impact |-> 15]>>
     ELSE <<>>)

\* In hundredths.
calculateConfidenceLevel(smsAnalysis, upiAnalysis, mobileAnalysis) ==
    Min(30 + (IF smsAnalysis.totalTransactions > 50 THEN 20 ELSE 0)
           + (IF upiAnalysis.monthlyTransactionCount > 10 THEN 20 ELSE 0)
           + (IF mobileAnalysis.rechargeFrequency > 5 THEN 10 ELSE 0),
        100)

-----------------------------------------------------------------------------
(* calculateAlternativeCreditScore *)

OrEmpty(list) == IF list = Undefined THEN <<>> ELSE list

\* Lines 14-47: the document in memory when save is called.
Scored(analysis, userData) ==
    LET smsAnalysis == analyzeSMSTransactions(OrEmpty(userData.smsData))
        upiAnalysis == analyzeUPITransactions(OrEmpty(userData.upiData))
        mobileAnalysis == analyzeMobileUsage(OrEmpty(userData.mobileData))
        a1 == [analysis EXCEPT
                 !.smsAnalysis = smsAnalysis,
                 !.upiAnalysis = upiAnalysis,
                 !.mobileUsage = mobileAnalysis,
                 !.creditScoreComponents =
                     calculateScoreComponents(smsAnalysis, upiAnalysis, mobileAnalysis, userData)]
        a2 == generateLoanRecommendation(determineRiskCategory(calculateCreditScore(a1)))
    IN  [a2 EXCEPT
           !.redFlags = identifyRedFlags(smsAnalysis, upiAnalysis, mobileAnalysis),
           !.positiveIndicators =
               identifyPositiveIndicators(smsAnalysis, upiAnalysis, mobileAnalysis),
           !.confidenceLevel = calculateConfidenceLevel(smsAnalysis, upiAnalysis, mobileAnalysis),
           !.dataSourcesUsed =
               <<[source |-> "SMS", dataPoints |-> LenOrZero(userData.smsData)],
                 [source |-> "UPI", dataPoints |-> LenOrZero(userData.upiData)],
                 [source |-> "Mobile", dataPoints |-> LenOrZero(userData.mobileData)]>>]

\* What save() rejects: the schema's required paths, its min and max, its
\* enums, and NaN where it declares a Number.  redFlags and
\* positiveIndicators are taken as lists of the records the schema lists the
\* fields of.
Within(x, lo, hi) == IsNum(x) /\ lo <= x /\ x <= hi

ValidationFails(d) ==
    LET s == d.smsAnalysis
        u == d.upiAnalysis
        m == d.mobileUsage
        r == d.loanRecommendation
    IN  ~ /\ \A x \in {s.totalTransactions, s.creditTransactions, s.debitTransactions,
                         s.averageBalance, u.monthlyTransactionCount,
                         u.averageTransactionAmount, u.totalVolume,
                         m.rechargeFrequency, m.averageRechargeAmount} : x # NaN
          /\ \A c \in u.merchantCategories : c.totalAmount # NaN
          /\ \A x \in {s.balanceStability, s.regularityScore, s.merchantDiversity,
                         u.paymentRegularity, u.digitalFootprintScore, m.consistencyScore} :
                 Within(x, 0, 100)
          /\ m.planType \in {"prepaid", "postpaid", "unknown"}
          /\ m.dataUsagePattern \in {"low", "medium", "high"}
          /\ \A k \in DOMAIN d.creditScoreComponents :
                 d.creditScoreComponents[k].score # NaN
          /\ Within(d.alternativeCreditScore, 300, 900)
          /\ Within(d.confidenceLevel, 0, 100)
          /\ d.riskCategory \in {"low", "medium", "high"}
          /\ r.assigned
          /\ Within(r.maxLoanAmount, 0, r.maxLoanAmount)
          /\ Within(r.recommendedAmount, 0, r.recommendedAmount)
          /\ Within(r.suggestedInterestRate, 8, 24)
          /\ Within(r.maxTenure, 3, 24)

-----------------------------------------------------------------------------
(* Inputs *)

Users == {"u1", "u2"}

MaxRuns == 2        \* runs in a list handed to an extractor
ManyCopies == 26    \* the longest run of equal records
MaxMonth == 2       \* months the records fall in
MaxBalance == 3     \* the largest balance reading
MaxRepeat == 2      \* the longest run of equal balance readings
MaxLoans == 2       \* loans stored for a user

salaryMsg == <<"credited", "Rs", "3", "salary", "ACME", "balance", "Rs", "2">>
debitMsg == <<"debited", "Rs", "1", "AMAZON", "balance", "Rs", "2">>
spentMsg == <<"paid", "Rs", "2", "SWIGGY", "balance", "Rs", "0">>
plainMsg == <<"hello">>

\* Well-formed records, and records with a field missing.
SmsRecords ==
    [date : 1..MaxMonth, message : {salaryMsg, debitMsg, spentMsg, plainMsg}]
    \cup {[date |-> 1, message |-> NoMessage], [date |-> NoNumber, message |-> debitMsg]}

UpiRecords ==
    [month : 1..MaxMonth, hour : {9, 20}, day : {0, 3}, amount : {2}, merchant : {"SWIGGY"}]
    \cup {[month |-> NoNumber, hour |-> NoNumber, day |-> NoNumber, amount |-> 2,
            merchant |-> "KIRANA"],
           [month |-> 1, hour |-> 9, day |-> 3, amount |-> NoNumber, merchant |-> "KIRANA"]}

MobileRecords ==
    [type : {"recharge", "other"}, amount : {1, 6}, month : 1..MaxMonth]
    \cup {[type |-> "recharge", amount |-> NoNumber, month |-> 1]}

Runs(records) == [rec : records, n : {1, ManyCopies}]

\* The lists an extractor is called with.
RECURSIVE ListsUpTo(_, _)
ListsUpTo(runs, k) ==
    IF k = 0 THEN {<<>>}
    ELSE LET shorter == ListsUpTo(runs, k - 1)
         IN  shorter \cup {Append(l, r) : l \in shorter, r \in runs}

Lists(records) == ListsUpTo(Runs(records), MaxRuns)

\* The userData of the calls of calculateAlternativeCreditScore.
Sms(date, message, n) == [rec |-> [date |-> date, message |-> message], n |-> n]
Upi(month, amount, n) ==
    [rec |-> [month |-> month, hour |-> 9, day |-> 3, amount |-> amount, merchant |-> "SWIGGY"],
     n |-> n]
Recharge(month, n) == [rec |-> [type |-> "recharge", amount |-> 1, month |-> month], n |-> n]

steadySms == <<Sms(1, salaryMsg, 1), Sms(2, debitMsg, 1)>>
volatileSms == <<Sms(1, salaryMsg, 1), Sms(2, spentMsg, 1)>>
zeroSms == <<Sms(1, spentMsg, 2)>>
fewUpi == <<Upi(1, 2, 3), Upi(2, 2, 3)>>
manyUpi == <<Upi(1, 2, ManyCopies), Upi(2, 2, ManyCopies)>>
recharges == <<Recharge(1, 3), Recharge(2, 3)>>

\* 40 and 60 well-formed records, and 60 records one of which has no text.
sms40 == <<Sms(1, salaryMsg, 20), Sms(2, debitMsg, 20)>>
sms60 == <<Sms(1, salaryMsg, 30), Sms(2, debitMsg, 30)>>
sms60broken == <<Sms(1, salaryMsg, 30), Sms(2, debitMsg, 29), Sms(2, NoMessage, 1)>>

NoHelp == [financial |-> 0, social |-> 0]
FullHelp == [financial |-> 100, social |-> 100]
Input(sms, upi, mobile, financial, social) ==
    [smsData |-> sms, upiData |-> upi, mobileData |-> mobile,
     helper |-> [financial |-> financial, social |-> social]]

\* Inputs whose scores fall on both sides of 600, 650 and 750.
EdgeInputs ==
    {Input(<<>>, <<>>, <<>>, 100, 75), Input(<<>>, <<>>, <<>>, 100, 74),
     Input(steadySms, fewUpi, <<>>, 60, 21), Input(steadySms, fewUpi, <<>>, 60, 20),
     Input(steadySms, manyUpi, <<>>, 80, 50), Input(steadySms, manyUpi, <<>>, 80, 49)}

\* Inputs that differ in the number of SMS records only.
VolumeInputs ==
    {Input(sms, manyUpi, <<>>, 100, 100) : sms \in {sms40, sms60, sms60broken}}

Inputs ==
    [smsData : {Undefined, <<>>, steadySms, volatileSms, zeroSms},
     upiData : {<<>>, fewUpi, manyUpi},
     mobileData : {<<>>, recharges},
     helper : {NoHelp, FullHelp}]
    \cup EdgeInputs \cup VolumeInputs

\* The inputs of two users calling side by side.
PairInputs ==
    {Input(volatileSms, manyUpi, <<>>, 100, 100), Input(steadySms, manyUpi, <<>>, 100, 100),
     Input(zeroSms, <<>>, <<>>, 0, 0)}

\* Component scores and stored scores of documents whose methods are called
\* directly.
MainScores == {0, 50, 58, 75}
LastScores == {0, 49, 50, 60, 61, 74, 75, 100}
StoredScores == {NoNumber, 800}

-----------------------------------------------------------------------------
(* The state machine *)

NoInput == Input(Undefined, Undefined, Undefined, 0, 0)

Idle(u) == [pc |-> "idle", userData |-> NoInput, analysis |-> NewCreditAnalysis(u), isNew |-> TRUE]

NoDocCall == [pc |-> "none", d |-> NewCreditAnalysis("u1")]

NoCall == [pc |-> "none", fn |-> "none", data |-> <<>>, out |-> <<>>]

\* A user who has verified nothing, consented to nothing and applied for
\* nothing: the defaults of the User schema.
NoLoan == [amount |-> NoNumber, interestRate |-> NoNumber, tenure |-> NoNumber,
           creditScore |-> NoNumber, riskScore |-> 0, aiDecisionConfidence |-> NoNumber,
           status |-> "none"]

NoRequest == [route |-> "none", status |-> NoNumber, amount |-> NoNumber, loan |-> NoLoan]

NewUser(verified) ==
    [aadhaarVerified |-> verified, panVerified |-> verified, isActive |-> TRUE,
     smsAnalysisConsent |-> FALSE, upiAnalysisConsent |-> FALSE,
     creditScore |-> NoNumber, riskCategory |-> "medium",
     totalLoansApplied |-> 0, totalLoansApproved |-> 0, currentLoanAmount |-> 0]

NoWeb == [user |-> NewUser(FALSE), loans |-> <<>>, last |-> NoRequest]

\* The services before any request: no OTP stored, nothing queued for sync.
Phones == {"p1", "p2"}
OTPs == {"111111", "222222"}
NoOtpCall == [fn |-> "none", otp |-> Undefined, result |-> FALSE]
NoOtpLog == [sent |-> Undefined, accepts |-> 0, inflight |-> 0, outcome |-> "none",
             last |-> NoOtpCall]

MaxTime == 2        \* values of Date.now() while requests are queued

\* The sync keys, `sync_${userId}_${Date.now()}`.
SyncKeys == Users \X (1..MaxTime)
NoItem == [action |-> "none", data |-> "none", retryCount |-> 0]
NoSyncLog == [action |-> "none", failed |-> 0, sent |-> 0, completed |-> FALSE]

SyncIdle ==
    /\ syncQueue = [key \in SyncKeys |-> NoItem]
    /\ syncService = [isOnline |-> TRUE, now |-> 1]
    /\ syncLog = [key \in SyncKeys |-> NoSyncLog]

OtpIdle ==
    /\ otpCache = [p \in Phones |-> Undefined]
    /\ otpLog = [p \in Phones |-> NoOtpLog]

\* The accounts: a user is registered under the first phone and none under
\* the second.
Passwords == {"secret", "guess"}
Devices == {"d1", "d2"}
NoUser == [registered |-> FALSE, password |-> Undefined, deviceId |-> Undefined]
NoAuthLog == [origin |-> "none", passed |-> FALSE, tokens |-> 0, status |-> NoNumber]

AuthIdle ==
    auth = [p \in Phones |->
               [user |-> IF p = "p1"
                         THEN [registered |-> TRUE, password |-> "secret", deviceId |-> "d1"]
                         ELSE NoUser,
                log |-> NoAuthLog]]

CachesIdle == shortCache = {} /\ mediumCache = {} /\ longCache = {}

ServiceIdle == OtpIdle /\ SyncIdle /\ AuthIdle /\ CachesIdle

\* The engine and its routes before any call.
EngineIdle ==
    /\ db = [u \in Users |-> <<>>]
    /\ web = NoWeb
    /\ inv = [u \in Users |-> Idle(u)]
    /\ doc = NoDocCall
    /\ ext = NoCall

Init ==
    /\ db = [u \in Users |-> <<>>]
    /\ web = NoWeb
    /\ ServiceIdle
    /\ inv = [u \in Users |-> Idle(u)]
    /\ doc = NoDocCall
    /\ ext = NoCall

\* The call with a findOne that leaves out the userId filter.
ScoreAnyUser(userId, userData) ==
    /\ inv[userId].pc # "computed"
    /\ LET stored == {u \in Users : db[u] # <<>>}
           found == stored # {}
           analysis == IF found THEN db[CHOOSE u \in stored : TRUE][1]
                       ELSE NewCreditAnalysis(userId)
       IN  inv' = [inv EXCEPT ![userId] =
                      [pc |-> "computed", userData |-> userData,
                       analysis |-> Scored(analysis, userData), isNew |-> ~found]]
    /\ UNCHANGED <<db, doc, ext, web, service>>

\* calculateAlternativeCreditScore(userId, userData) up to its await of
\* save(): findOne or new, then lines 14-47, which touch the document in
\* memory only.
Score(userId, userData) ==
    /\ inv[userId].pc # "computed"
    /\ LET found == db[userId] # <<>>
           analysis == IF found THEN db[userId][1] ELSE NewCreditAnalysis(userId)
       IN  inv' = [inv EXCEPT ![userId] =
                      [pc |-> "computed", userData |-> userData,
                       analysis |-> Scored(analysis, userData), isNew |-> ~found]]
    /\ UNCHANGED <<db, doc, ext, web, service>>

\* await analysis.save(): the document is written and returned, or save
\* rejects and the catch block throws 'Failed to calculate credit score'.
Save(userId) ==
    /\ inv[userId].pc = "computed"
    /\ IF ValidationFails(inv[userId].analysis)
       THEN /\ inv' = [inv EXCEPT ![userId].pc = "failed"]
            /\ db' = db
       ELSE /\ inv' = [inv EXCEPT ![userId].pc = "done"]
            /\ db' = [db EXCEPT ![userId] =
                         IF inv[userId].isNew \/ db[userId] = <<>>
                         THEN Append(db[userId], inv[userId].analysis)
                         ELSE [db[userId] EXCEPT ![1] = inv[userId].analysis]]
    /\ UNCHANGED <<doc, ext, web, service>>

\* The calls of one user, one after the other.
Next ==
    \/ \E userData \in Inputs : Score("u1", userData)
    \/ Save("u1")

Spec == Init /\ [][Next]_vars

\* The calls of two users, side by side.
NextPair ==
    \E u \in Users :
        \/ \E userData \in PairInputs : Score(u, userData)
        \/ Save(u)

SpecPair == Init /\ [][NextPair]_vars

\* Two calls in flight for one user.  Each caller holds its own document from
\* findOne or new until its save.
Callers == {"c1", "c2"}

FindOrCreate(caller, userId, userData) ==
    /\ inv[caller].pc # "computed"
    /\ LET found == db[userId] # <<>>
           analysis == IF found THEN db[userId][1] ELSE NewCreditAnalysis(userId)
       IN  inv' = [inv EXCEPT ![caller] =
                      [pc |-> "computed", userData |-> userData,
                       analysis |-> Scored(analysis, userData), isNew |-> ~found]]
    /\ UNCHANGED <<db, doc, ext, web, service>>

\* await analysis.save(): a document made by new CreditAnalysis is inserted,
\* one that findOne returned is updated in place.
SaveOf(caller, userId) ==
    /\ inv[caller].pc = "computed"
    /\ IF ValidationFails(inv[caller].analysis)
       THEN /\ inv' = [inv EXCEPT ![caller].pc = "failed"]
            /\ db' = db
       ELSE /\ inv' = [inv EXCEPT ![caller].pc = "done"]
            /\ db' = [db EXCEPT ![userId] =
                         IF inv[caller].isNew THEN Append(db[userId], inv[caller].analysis)
                         ELSE [db[userId] EXCEPT ![1] = inv[caller].analysis]]
    /\ UNCHANGED <<doc, ext, web, service>>

InitRace ==
    /\ db = [u \in Users |-> <<>>]
    /\ web = NoWeb
    /\ ServiceIdle
    /\ inv = [c \in Callers |-> Idle("u1")]
    /\ doc = NoDocCall
    /\ ext = NoCall

NextRace ==
    \E caller \in Callers :
        \/ \E userData \in PairInputs : FindOrCreate(caller, "u1", userData)
        \/ SaveOf(caller, "u1")

SpecRace == InitRace /\ [][NextRace]_vars

-----------------------------------------------------------------------------
(* The methods of a CreditAnalysis document, called directly on a document   *)
(* that holds any component scores.                                          *)

aFlag ==
    [type |-> "low_digital_usage", severity |-> "medium",
     description |-> "Limited digital payment activity", impact |-> 0 - 10]

WithScores(t, p, e, f, s, stored, flags) ==
    [NewCreditAnalysis("u1") EXCEPT
        !.creditScoreComponents =
            [transactionBehavior |-> [score |-> t, weight |-> 25],
             paymentRegularity |-> [score |-> p, weight |-> 20],
             digitalEngagement |-> [score |-> e, weight |-> 20],
             financialStability |-> [score |-> f, weight |-> 25],
             socialSignals |-> [score |-> s, weight |-> 10]],
        !.alternativeCreditScore = stored,
        !.redFlags = flags]

InitDoc ==
    /\ db = [u \in Users |-> <<>>]
    /\ web = NoWeb
    /\ ServiceIdle
    /\ inv = [u \in Users |-> Idle(u)]
    /\ ext = NoCall
    /\ \E t \in MainScores, p \in MainScores, e \in MainScores, f \in MainScores,
          s \in LastScores, stored \in StoredScores, flags \in {<<>>, <<aFlag>>} :
          doc = [pc |-> "new", d |-> WithScores(t, p, e, f, s, stored, flags)]

CallCalculateCreditScore ==
    /\ doc' = [pc |-> "calculateCreditScore", d |-> calculateCreditScore(doc.d)]
    /\ UNCHANGED <<db, inv, ext, web, service>>

CallDetermineRiskCategory ==
    /\ doc' = [pc |-> "determineRiskCategory", d |-> determineRiskCategory(doc.d)]
    /\ UNCHANGED <<db, inv, ext, web, service>>

CallGenerateLoanRecommendation ==
    /\ doc' = [pc |-> "generateLoanRecommendation", d |-> generateLoanRecommendation(doc.d)]
    /\ UNCHANGED <<db, inv, ext, web, service>>

NextDoc ==
    \/ CallCalculateCreditScore
    \/ CallDetermineRiskCategory
    \/ CallGenerateLoanRecommendation

SpecDoc == InitDoc /\ [][NextDoc]_vars

-----------------------------------------------------------------------------
(* The three exported extractors, called directly *)

Extractors == {"analyzeSMSTransactions", "analyzeUPITransactions", "analyzeMobileUsage"}

Called(fn, data) == [pc |-> "called", fn |-> fn, data |-> data, out |-> <<>>]

\* A call with a list of records, or with no list at all.
InitExt ==
    /\ db = [u \in Users |-> <<>>]
    /\ web = NoWeb
    /\ ServiceIdle
    /\ inv = [u \in Users |-> Idle(u)]
    /\ doc = NoDocCall
    /\ \/ \E data \in Lists(SmsRecords) : ext = Called("analyzeSMSTransactions", data)
       \/ \E data \in Lists(UpiRecords) : ext = Called("analyzeUPITransactions", data)
       \/ \E data \in Lists(MobileRecords) : ext = Called("analyzeMobileUsage", data)
       \/ \E fn \in Extractors : ext = Called(fn, Undefined)

ReturnSMS ==
    /\ ext.pc = "called" /\ ext.fn = "analyzeSMSTransactions"
    /\ ext' = [ext EXCEPT !.pc = "returned", !.out = analyzeSMSTransactions(ext.data)]
    /\ UNCHANGED <<db, inv, doc, web, service>>

ReturnUPI ==
    /\ ext.pc = "called" /\ ext.fn = "analyzeUPITransactions"
    /\ ext' = [ext EXCEPT !.pc = "returned", !.out = analyzeUPITransactions(ext.data)]
    /\ UNCHANGED <<db, inv, doc, web, service>>

ReturnMobile ==
    /\ ext.pc = "called" /\ ext.fn = "analyzeMobileUsage"
    /\ ext' = [ext EXCEPT !.pc = "returned", !.out = analyzeMobileUsage(ext.data)]
    /\ UNCHANGED <<db, inv, doc, web, service>>

NextExt == ReturnSMS \/ ReturnUPI \/ ReturnMobile

SpecExt == InitExt /\ [][NextExt]_vars

-----------------------------------------------------------------------------
(* The functions of summaries, called directly on any summaries *)

StabilityScores == {NaN, 0, 20, 29, 30, 31, 100}
FootprintScores == {0, 19, 20, 21, 70, 71, 100}
aSalary == [amount |-> 3, date |-> 1, source |-> "ACME"]

SmsSummaries ==
    {[getDefaultSMSAnalysis EXCEPT !.balanceStability = b, !.regularityScore = r,
                                   !.merchantDiversity = m, !.salaryCredits = c] :
        b \in StabilityScores, r \in {0, 31, 100}, m \in {0, 30}, c \in {{}, {aSalary}}}

UpiSummaries ==
    {[getDefaultUPIAnalysis EXCEPT !.paymentRegularity = r, !.digitalFootprintScore = f] :
        r \in {0, 30, 100}, f \in FootprintScores}

MobileSummaries ==
    {[getDefaultMobileAnalysis EXCEPT !.consistencyScore = c] : c \in {0, 30, 45, 100}}

SummaryArgs ==
    [smsAnalysis : SmsSummaries, upiAnalysis : UpiSummaries, mobileAnalysis : MobileSummaries,
     userData : {Input(<<>>, <<>>, <<>>, 0, 0), Input(<<>>, <<>>, <<>>, 100, 100)}]

\* Lists of balance readings, as runs of equal readings.
BalanceLists == ListsUpTo([v : 0..MaxBalance, n : 0..MaxRepeat], MaxRuns)

InitFn ==
    /\ db = [u \in Users |-> <<>>]
    /\ web = NoWeb
    /\ ServiceIdle
    /\ inv = [u \in Users |-> Idle(u)]
    /\ doc = NoDocCall
    /\ \/ \E fn \in {"identifyRedFlags", "identifyPositiveIndicators",
                       "calculateScoreComponents"} :
             \E args \in SummaryArgs : ext = Called(fn, args)
       \/ \E balances \in BalanceLists : ext = Called("calculateBalanceStability", balances)

ReturnRedFlags ==
    /\ ext.pc = "called" /\ ext.fn = "identifyRedFlags"
    /\ ext' = [ext EXCEPT !.pc = "returned",
                          !.out = identifyRedFlags(ext.data.smsAnalysis, ext.data.upiAnalysis,
                                                   ext.data.mobileAnalysis)]
    /\ UNCHANGED <<db, inv, doc, web, service>>

ReturnPositiveIndicators ==
    /\ ext.pc = "called" /\ ext.fn = "identifyPositiveIndicators"
    /\ ext' = [ext EXCEPT !.pc = "returned",
                          !.out = identifyPositiveIndicators(ext.data.smsAnalysis,
                                                             ext.data.upiAnalysis,
                                                             ext.data.mobileAnalysis)]
    /\ UNCHANGED <<db, inv, doc, web, service>>

ReturnScoreComponents ==
    /\ ext.pc = "called" /\ ext.fn = "calculateScoreComponents"
    /\ ext' = [ext EXCEPT !.pc = "returned",
                          !.out = calculateScoreComponents(ext.data.smsAnalysis,
                                                           ext.data.upiAnalysis,
                                                           ext.data.mobileAnalysis,
                                                           ext.data.userData)]
    /\ UNCHANGED <<db, inv, doc, web, service>>

ReturnBalanceStability ==
    /\ ext.pc = "called" /\ ext.fn = "calculateBalanceStability"
    /\ ext' = [ext EXCEPT !.pc = "returned", !.out = calculateBalanceStability(ext.data)]
    /\ UNCHANGED <<db, inv, doc, web, service>>

NextFn ==
    \/ ReturnRedFlags
    \/ ReturnPositiveIndicators
    \/ ReturnScoreComponents
    \/ ReturnBalanceStability

SpecFn == InitFn /\ [][NextFn]_vars

-----------------------------------------------------------------------------
(* The routes POST /consent, /analyze-sms, /analyze-upi, /score and /apply,  *)
(* each served in one step, for the user "u1".  Rates are kept in tenths of  *)
(* a percent and riskScore in tenths.  The EMI of a loan is left out: it is  *)
(* a number for every amount, rate and tenure the routes let through.        *)

WebUser == "u1"

\* The bodies of the scoring requests that carry lists; NoInput is the body
\* that carries none.
WebPayloads ==
    {Input(sms60, manyUpi, recharges, 100, 100), Input(steadySms, fewUpi, <<>>, 60, 20),
     Input(<<>>, <<>>, <<>>, 0, 0)}

Amounts == {5000, 30000, 100000}
Tenures == {12, 24}

Answer(route, status) == [NoRequest EXCEPT !.route = route, !.status = status]

Refuse(route, status) ==
    /\ web' = [web EXCEPT !.last = Answer(route, status)]
    /\ UNCHANGED <<db, inv, doc, ext, service>>

\* The call of the engine, calculateAlternativeCreditScore from findOne to
\* save, and what the three scoring routes do with its result: the user's
\* creditScore and riskCategory updated and 200, or the catch block's 500.
ScoreFor(route, userData) ==
    \E found \in {db[WebUser] # <<>>} :
    \E analysis \in {Scored(IF found THEN db[WebUser][1] ELSE NewCreditAnalysis(WebUser),
                            userData)} :
    \E ok \in {~ValidationFails(analysis)} :
        /\ inv' = [inv EXCEPT ![WebUser] =
                       [pc |-> IF ok THEN "done" ELSE "failed", userData |-> userData,
                        analysis |-> analysis, isNew |-> ~found]]
        /\ db' = [db EXCEPT ![WebUser] = IF ok THEN <<analysis>> ELSE @]
        /\ web' = IF ok
                  THEN [web EXCEPT !.user.creditScore = analysis.alternativeCreditScore,
                                   !.user.riskCategory = analysis.riskCategory,
                                   !.last = Answer(route, 200)]
                  ELSE [web EXCEPT !.last = Answer(route, 500)]
        /\ UNCHANGED <<doc, ext, service>>

requireVerifiedIdentity == web.user.aadhaarVerified /\ web.user.panVerified

isEligibleForLoan ==
    /\ web.user.aadhaarVerified /\ web.user.panVerified
    /\ web.user.currentLoanAmount = 0
    /\ web.user.isActive

PostConsent(smsAnalysisConsent, upiAnalysisConsent) ==
    /\ web' = [web EXCEPT !.user.smsAnalysisConsent = smsAnalysisConsent,
                          !.user.upiAnalysisConsent = upiAnalysisConsent,
                          !.last = Answer("consent", 200)]
    /\ UNCHANGED <<db, inv, doc, ext, service>>

AnalyzeSms(body) ==
    IF ~requireVerifiedIdentity THEN Refuse("analyze-sms", 403)
    ELSE IF body.smsData = Undefined THEN Refuse("analyze-sms", 400)
    ELSE IF ~web.user.smsAnalysisConsent THEN Refuse("analyze-sms", 403)
    ELSE ScoreFor("analyze-sms", [body EXCEPT !.upiData = Undefined, !.mobileData = Undefined])

AnalyzeUpi(body) ==
    IF ~requireVerifiedIdentity THEN Refuse("analyze-upi", 403)
    ELSE IF ~web.user.upiAnalysisConsent THEN Refuse("analyze-upi", 403)
    ELSE IF body.upiData = Undefined THEN Refuse("analyze-upi", 400)
    ELSE ScoreFor("analyze-upi", [body EXCEPT !.smsData = Undefined, !.mobileData = Undefined])

\* POST /score without the two consent conditions of its userData.
PostScoreUngated(body) ==
    IF ~requireVerifiedIdentity THEN Refuse("score", 403)
    ELSE ScoreFor("score", body)

\* POST /score: userData holds the SMS and UPI lists of the body only where
\* the user consented to them, and the mobile list always.
PostScore(body) ==
    IF ~requireVerifiedIdentity THEN Refuse("score", 403)
    ELSE ScoreFor("score",
                  [body EXCEPT
                      !.smsData = IF web.user.smsAnalysisConsent THEN body.smsData
                                  ELSE Undefined,
                      !.upiData = IF web.user.upiAnalysisConsent THEN body.upiData
                                  ELSE Undefined])

\* What loan.save() rejects: the min and max of the Loan schema.
LoanValidationFails(loan) ==
    ~ /\ Within(loan.amount, 5000, 100000)
      /\ Within(loan.interestRate, 80, 240)
      /\ Within(loan.tenure, 3, 24)
      /\ Within(loan.creditScore, 300, 900)
      /\ Within(loan.riskScore, 0, 1000)
      /\ Within(loan.aiDecisionConfidence, 0, 100)

\* new Loan({...}) of POST /apply with the status the route gives it.
NewLoan(amount, tenure, creditAnalysis) ==
    LET suggested == creditAnalysis.loanRecommendation.suggestedInterestRate
        score == creditAnalysis.alternativeCreditScore
    IN  [amount |-> amount,
         interestRate |-> (IF Truthy(suggested) THEN 10 * suggested ELSE 180)
                          + (IF amount > 50000 THEN 10 ELSE 0)
                          + (IF tenure > 18 THEN 5 ELSE 0),
         tenure |-> tenure,
         creditScore |-> score,
         riskScore |-> IF IsNum(score) THEN 100 - score ELSE NaN,
         aiDecisionConfidence |-> creditAnalysis.confidenceLevel,
         status |-> IF score >= 650 /\ creditAnalysis.confidenceLevel >= 70 THEN "approved"
                    ELSE IF score < 500 THEN "rejected"
                    ELSE "under_review"]

\* POST /apply without the comparison of amount with maxLoanAmount.
ApplyAnyAmount(amount, tenure) ==
    IF ~requireVerifiedIdentity \/ ~isEligibleForLoan THEN Refuse("apply", 403)
    ELSE IF db[WebUser] = <<>> THEN Refuse("apply", 400)
    ELSE LET loan == NewLoan(amount, tenure, db[WebUser][1])
             user == IF loan.status = "approved"
                     THEN [web.user EXCEPT !.totalLoansApproved = @ + 1,
                                           !.currentLoanAmount = amount]
                     ELSE web.user
             request == [route |-> "apply", status |-> 500, amount |-> amount, loan |-> loan]
         IN  /\ Len(web.loans) < MaxLoans
             /\ web' = IF LoanValidationFails(loan)
                       THEN [web EXCEPT !.user = user, !.last = request]
                       ELSE [web EXCEPT
                                !.user = [user EXCEPT !.totalLoansApplied = @ + 1],
                                !.loans = Append(@, loan),
                                !.last = [request EXCEPT !.status = 201]]
             /\ UNCHANGED <<db, inv, doc, ext, service>>

\* POST /apply behind requireVerifiedIdentity and requireLoanEligibility.  The
\* approved branch saves the user before the loan is saved.
Apply(amount, tenure) ==
    IF ~requireVerifiedIdentity \/ ~isEligibleForLoan THEN Refuse("apply", 403)
    ELSE IF db[WebUser] = <<>> THEN Refuse("apply", 400)
    ELSE IF amount > db[WebUser][1].loanRecommendation.maxLoanAmount
         THEN /\ web' = [web EXCEPT !.last = [Answer("apply", 400) EXCEPT !.amount = amount]]
              /\ UNCHANGED <<db, inv, doc, ext, service>>
    ELSE LET loan == NewLoan(amount, tenure, db[WebUser][1])
             user == IF loan.status = "approved"
                     THEN [web.user EXCEPT !.totalLoansApproved = @ + 1,
                                           !.currentLoanAmount = amount]
                     ELSE web.user
             request == [route |-> "apply", status |-> 500, amount |-> amount, loan |-> loan]
         IN  /\ Len(web.loans) < MaxLoans
             /\ web' = IF LoanValidationFails(loan)
                       THEN [web EXCEPT !.user = user, !.last = request]
                       ELSE [web EXCEPT
                                !.user = [user EXCEPT !.totalLoansApplied = @ + 1],
                                !.loans = Append(@, loan),
                                !.last = [request EXCEPT !.status = 201]]
             /\ UNCHANGED <<db, inv, doc, ext, service>>

InitWeb ==
    /\ db = [u \in Users |-> <<>>]
    /\ inv = [u \in Users |-> Idle(u)]
    /\ doc = NoDocCall
    /\ ext = NoCall
    /\ \E verified \in BOOLEAN : web = [NoWeb EXCEPT !.user = NewUser(verified)]
    /\ ServiceIdle

NextWeb ==
    \/ \E sms \in BOOLEAN, upi \in BOOLEAN : PostConsent(sms, upi)
    \/ \E body \in WebPayloads : AnalyzeSms(body)
    \/ \E body \in WebPayloads : AnalyzeUpi(body)
    \/ \E body \in WebPayloads : PostScore(body)
    \/ AnalyzeSms(NoInput)
    \/ AnalyzeUpi(NoInput)
    \/ PostScore(NoInput)
    \/ \E amount \in Amounts, tenure \in Tenures : Apply(amount, tenure)

SpecWeb == InitWeb /\ [][NextWeb]_vars

-----------------------------------------------------------------------------
(* smsService.js: sendOTP and verifyOTP over otpCache.  sendOTP stores the   *)
(* OTP and then awaits the SMS gateway, so it takes two steps; verifyOTP has *)
(* no await and takes one.  The cache drops an entry when its ten minutes    *)
(* are over.                                                                 *)

MaxSends == 2       \* sendOTP calls in flight for one phone

\* sendOTP up to its await: generateOTP, otpCache.set (lines 18-22).
SendOTP(phoneNumber) ==
    /\ otpLog[phoneNumber].inflight < MaxSends
    /\ \E otp \in OTPs :
          /\ otpCache' = [otpCache EXCEPT ![phoneNumber] = otp]
          /\ otpLog' = [otpLog EXCEPT ![phoneNumber] =
                           [sent |-> otp, accepts |-> 0, inflight |-> @.inflight + 1,
                            outcome |-> "pending",
                            last |-> [fn |-> "sendOTP", otp |-> otp, result |-> FALSE]]]
    /\ UNCHANGED <<engine, sync, auth, caches>>

\* client.messages.create resolved: sendOTP returns { success: true }.
Delivered(phoneNumber) ==
    /\ otpLog[phoneNumber].inflight > 0
    /\ otpLog' = [otpLog EXCEPT ![phoneNumber].inflight = @ - 1,
                                ![phoneNumber].outcome = "sent"]
    /\ UNCHANGED <<engine, otpCache, sync, auth, caches>>

\* client.messages.create rejected: in development a second OTP is generated
\* and stored (lines 38-43), otherwise sendOTP throws and the first one stays.
Undelivered(phoneNumber) ==
    /\ otpLog[phoneNumber].inflight > 0
    /\ \/ \E otp \in OTPs :
            /\ otpCache' = [otpCache EXCEPT ![phoneNumber] = otp]
            /\ otpLog' = [otpLog EXCEPT ![phoneNumber] =
                             [sent |-> otp, accepts |-> 0, inflight |-> @.inflight - 1,
                              outcome |-> "development",
                              last |-> [fn |-> "sendOTP", otp |-> otp, result |-> FALSE]]]
       \/ /\ otpCache' = otpCache
          /\ otpLog' = [otpLog EXCEPT ![phoneNumber].inflight = @ - 1,
                                      ![phoneNumber].outcome = "thrown"]
    /\ UNCHANGED <<engine, sync, auth, caches>>

\* verifyOTP that leaves the OTP in the cache when it matches.
verifyOTPKeeping(phoneNumber, providedOTP) ==
    LET storedOTP == otpCache[phoneNumber]
        result == storedOTP # Undefined /\ storedOTP = providedOTP
    IN  /\ otpCache' = otpCache
        /\ otpLog' = [otpLog EXCEPT
                         ![phoneNumber].accepts = IF result THEN @ + 1 ELSE @,
                         ![phoneNumber].last =
                             [fn |-> "verifyOTP", otp |-> providedOTP, result |-> result]]
        /\ UNCHANGED <<engine, sync, auth, caches>>

\* verifyOTP(phoneNumber, providedOTP), lines 50-70.
verifyOTP(phoneNumber, providedOTP) ==
    LET storedOTP == otpCache[phoneNumber]
        result == storedOTP # Undefined /\ storedOTP = providedOTP
    IN  /\ otpCache' = IF result THEN [otpCache EXCEPT ![phoneNumber] = Undefined]
                       ELSE otpCache
        /\ otpLog' = [otpLog EXCEPT
                         ![phoneNumber].accepts = IF result THEN @ + 1 ELSE @,
                         ![phoneNumber].last =
                             [fn |-> "verifyOTP", otp |-> providedOTP, result |-> result]]
        /\ UNCHANGED <<engine, sync, auth, caches>>

\* stdTTL 600: the entry of a phone is gone ten minutes after it was set.
Expire(phoneNumber) ==
    /\ otpCache[phoneNumber] # Undefined
    /\ otpCache' = [otpCache EXCEPT ![phoneNumber] = Undefined]
    /\ UNCHANGED <<engine, otpLog, sync, auth, caches>>

InitOtp == EngineIdle /\ ServiceIdle

NextOtp ==
    \E phoneNumber \in Phones :
        \/ SendOTP(phoneNumber)
        \/ Delivered(phoneNumber)
        \/ Undelivered(phoneNumber)
        \/ \E providedOTP \in OTPs \cup {Undefined} : verifyOTP(phoneNumber, providedOTP)
        \/ Expire(phoneNumber)

SpecOtp == InitOtp /\ [][NextOtp]_vars

-----------------------------------------------------------------------------
(* OfflineDataManager (middleware/cache.js) and SyncService: requests are    *)
(* queued while offline and processed by sync passes.  syncUserData awaits   *)
(* processSyncItem for one pending item after the other, so a step of the    *)
(* model is one turn of its loop.                                            *)

\* The actions processSyncItem has a case for, and the ones that get queued.
SyncActions == {"loan_application", "profile_update", "document_upload", "emi_payment"}
DirectActions == {"loan_application", "sms_fallback"}
Methods == {"GET", "POST"}

queueForSync(queue, userId, action, data) ==
    [queue EXCEPT ![<<userId, syncService.now>>] =
        [action |-> action, data |-> data, retryCount |-> 0]]

getPendingSyncItems(userId) ==
    {key \in SyncKeys : key[1] = userId /\ syncQueue[key] # NoItem}

markSyncCompleted(queue, syncKey) == [queue EXCEPT ![syncKey] = NoItem]

incrementRetryCount(queue, syncKey) ==
    LET item == queue[syncKey]
    IN  IF item = NoItem THEN queue
        ELSE IF item.retryCount + 1 > 3 THEN [queue EXCEPT ![syncKey] = NoItem]
        ELSE [queue EXCEPT ![syncKey].retryCount = @ + 1]

\* Date.now() moves on.
Tick ==
    /\ syncService.now < MaxTime
    /\ syncService' = [syncService EXCEPT !.now = @ + 1]
    /\ UNCHANGED <<engine, smsService, auth, caches, syncQueue, syncLog>>

checkConnectivity ==
    /\ \E isOnline \in BOOLEAN : syncService' = [syncService EXCEPT !.isOnline = isOnline]
    /\ UNCHANGED <<engine, smsService, auth, caches, syncQueue, syncLog>>

Queued(userId, action) ==
    [syncLog EXCEPT ![<<userId, syncService.now>>] = [NoSyncLog EXCEPT !.action = action]]

\* handleOfflineRequest: a non-GET request that arrives while offline is
\* queued as 'api_request' and answered 202; any other goes on to its route.
handleOfflineRequest(userId, method) ==
    /\ ~syncService.isOnline /\ method # "GET"
    /\ syncQueue' = queueForSync(syncQueue, userId, "api_request", method)
    /\ syncLog' = Queued(userId, "api_request")
    /\ UNCHANGED <<engine, smsService, auth, caches, syncService>>

\* queueForSync called by a caller other than handleOfflineRequest.
QueueDirectly(userId, action) ==
    /\ syncQueue' = queueForSync(syncQueue, userId, action, "payload")
    /\ syncLog' = Queued(userId, action)
    /\ UNCHANGED <<engine, smsService, auth, caches, syncService>>

\* One turn of the loop of syncUserData (lines 72-80): processSyncItem sends
\* the request of an item it has a case for, which succeeds or throws, and
\* returns at once for any other action.
syncUserData(userId) ==
    /\ syncService.isOnline
    /\ \E key \in getPendingSyncItems(userId) :
          IF syncQueue[key].action \in SyncActions
          THEN \/ /\ syncQueue' = markSyncCompleted(syncQueue, key)
                  /\ syncLog' = [syncLog EXCEPT ![key].sent = @ + 1, ![key].completed = TRUE]
               \/ /\ syncQueue' = incrementRetryCount(syncQueue, key)
                  /\ syncLog' = [syncLog EXCEPT ![key].failed = @ + 1]
          ELSE /\ syncQueue' = markSyncCompleted(syncQueue, key)
               /\ syncLog' = [syncLog EXCEPT ![key].completed = TRUE]
    /\ UNCHANGED <<engine, smsService, auth, caches, syncService>>

InitSync == EngineIdle /\ ServiceIdle

NextSync ==
    \/ Tick
    \/ checkConnectivity
    \/ \E userId \in Users, method \in Methods : handleOfflineRequest(userId, method)
    \/ \E userId \in Users, action \in DirectActions : QueueDirectly(userId, action)
    \/ \E userId \in Users : syncUserData(userId)

SpecSync == InitSync /\ [][NextSync]_vars

-----------------------------------------------------------------------------
(* The routes POST /register, /login, /verify-otp and /resend-otp, each      *)
(* served in one step.  A request may come from anyone: its phone number,    *)
(* password, device and OTP are drawn from all the values there are.         *)

MaxTokens == 1      \* tokens issued for one phone

\* The cache and the log after sendOTP(phoneNumber) has stored otp.
OtpSent(phoneNumber, otp) ==
    /\ otpCache' = [otpCache EXCEPT ![phoneNumber] = otp]
    /\ otpLog' = [otpLog EXCEPT ![phoneNumber] =
                     [sent |-> otp, accepts |-> 0, inflight |-> @.inflight,
                      outcome |-> "sent",
                      last |-> [fn |-> "sendOTP", otp |-> otp, result |-> FALSE]]]

\* The answer of a route that sends no OTP and issues no token.
Reject(phoneNumber, status) ==
    /\ auth' = [auth EXCEPT ![phoneNumber].log.status = status]
    /\ UNCHANGED <<otpCache, otpLog>>

PostRegister(phoneNumber, password, deviceId) ==
    /\ IF auth[phoneNumber].user.registered THEN Reject(phoneNumber, 409)
       ELSE \E otp \in OTPs :
               /\ OtpSent(phoneNumber, otp)
               /\ auth' = [auth EXCEPT
                              ![phoneNumber].user =
                                  [registered |-> TRUE, password |-> password,
                                   deviceId |-> deviceId],
                              ![phoneNumber].log =
                                  [@ EXCEPT !.origin = "register", !.passed = TRUE,
                                            !.status = 201]]
    /\ UNCHANGED <<engine, sync, caches>>

PostLogin(phoneNumber, password, deviceId) ==
    /\ LET user == auth[phoneNumber].user
       IN  IF ~user.registered THEN Reject(phoneNumber, 401)
           ELSE IF user.password # password THEN Reject(phoneNumber, 401)
           ELSE IF user.deviceId # Undefined /\ user.deviceId # deviceId
                THEN Reject(phoneNumber, 403)
           ELSE \E otp \in OTPs :
                   /\ OtpSent(phoneNumber, otp)
                   /\ auth' = [auth EXCEPT
                                  ![phoneNumber].user.deviceId = deviceId,
                                  ![phoneNumber].log =
                                      [@ EXCEPT !.origin = "login", !.passed = TRUE,
                                                !.status = 200]]
    /\ UNCHANGED <<engine, sync, caches>>

\* POST /verify-otp: verifyOTP, then the user is looked up and the token
\* signed.
PostVerifyOtp(phoneNumber, providedOTP) ==
    /\ auth[phoneNumber].log.tokens < MaxTokens
    /\ LET storedOTP == otpCache[phoneNumber]
           isOTPValid == storedOTP # Undefined /\ storedOTP = providedOTP
       IN  /\ otpCache' = IF isOTPValid THEN [otpCache EXCEPT ![phoneNumber] = Undefined]
                          ELSE otpCache
           /\ otpLog' = [otpLog EXCEPT
                            ![phoneNumber].accepts = IF isOTPValid THEN @ + 1 ELSE @,
                            ![phoneNumber].last =
                                [fn |-> "verifyOTP", otp |-> providedOTP,
                                 result |-> isOTPValid]]
           /\ auth' = IF ~isOTPValid THEN [auth EXCEPT ![phoneNumber].log.status = 401]
                      ELSE IF ~auth[phoneNumber].user.registered
                           THEN [auth EXCEPT ![phoneNumber].log.status = 404]
                      ELSE [auth EXCEPT ![phoneNumber].log.tokens = @ + 1,
                                        ![phoneNumber].log.status = 200]
    /\ UNCHANGED <<engine, sync, caches>>

\* POST /resend-otp: an OTP for the phone of any registered user, with no
\* password and no device asked for.
PostResendOtp(phoneNumber) ==
    /\ IF ~auth[phoneNumber].user.registered THEN Reject(phoneNumber, 404)
       ELSE \E otp \in OTPs :
               /\ OtpSent(phoneNumber, otp)
               /\ auth' = [auth EXCEPT ![phoneNumber].log.origin = "resend",
                                       ![phoneNumber].log.status = 200]
    /\ UNCHANGED <<engine, sync, caches>>

\* The entry of a phone leaves otpCache when its ten minutes are over.
OtpExpires(phoneNumber) ==
    /\ otpCache[phoneNumber] # Undefined
    /\ otpCache' = [otpCache EXCEPT ![phoneNumber] = Undefined]
    /\ UNCHANGED <<engine, otpLog, sync, auth, caches>>

InitAuth == EngineIdle /\ ServiceIdle

NextAuth ==
    \E phoneNumber \in Phones :
        \/ \E password \in Passwords, deviceId \in Devices :
              PostRegister(phoneNumber, password, deviceId)
        \/ \E password \in Passwords, deviceId \in Devices :
              PostLogin(phoneNumber, password, deviceId)
        \/ \E providedOTP \in OTPs : PostVerifyOtp(phoneNumber, providedOTP)
        \/ PostResendOtp(phoneNumber)
        \/ OtpExpires(phoneNumber)

SpecAuth == InitAuth /\ [][NextAuth]_vars

-----------------------------------------------------------------------------
(* middleware/cache.js: the three response caches, the middleware that fills *)
(* them and the helpers that empty them.  A cache is the set of keys it      *)
(* holds; the key `credit_score_${userId}` is <<"credit_score", userId>>.    *)

CacheKeys == {"user_profile", "credit_score", "loan_eligibility", "dashboard"} \X Users

\* The middleware made by createCacheMiddleware for a GET request: a hit
\* answers from the cache; on a miss the response is stored when it succeeds.
Cached(cacheInstance, key, success) ==
    IF key \in cacheInstance \/ ~success THEN cacheInstance ELSE cacheInstance \cup {key}

cacheUserProfile(userId, success) ==
    /\ mediumCache' = Cached(mediumCache, <<"user_profile", userId>>, success)
    /\ UNCHANGED <<engine, smsService, sync, auth, shortCache, longCache>>

cacheCreditScore(userId, success) ==
    /\ longCache' = Cached(longCache, <<"credit_score", userId>>, success)
    /\ UNCHANGED <<engine, smsService, sync, auth, shortCache, mediumCache>>

cacheLoanEligibility(userId, success) ==
    /\ mediumCache' = Cached(mediumCache, <<"loan_eligibility", userId>>, success)
    /\ UNCHANGED <<engine, smsService, sync, auth, shortCache, longCache>>

cacheDashboard(userId, success) ==
    /\ shortCache' = Cached(shortCache, <<"dashboard", userId>>, success)
    /\ UNCHANGED <<engine, smsService, sync, auth, mediumCache, longCache>>

invalidateUserCache(userId) ==
    LET patterns == {"user_profile", "dashboard", "loan_eligibility", "credit_score"}
                        \X {userId}
    IN  /\ shortCache' = shortCache \ patterns
        /\ mediumCache' = mediumCache \ patterns
        /\ longCache' = longCache \ patterns
        /\ UNCHANGED <<engine, smsService, sync, auth>>

invalidateCreditCache(userId) ==
    LET patterns == {"credit_score", "loan_eligibility", "dashboard"} \X {userId}
    IN  /\ mediumCache' = mediumCache \ patterns
        /\ longCache' = longCache \ patterns
        /\ UNCHANGED <<engine, smsService, sync, auth, shortCache>>

\* stdTTL: an entry leaves its cache when its time is over.
CacheExpires(key) ==
    /\ key \in shortCache \cup mediumCache \cup longCache
    /\ shortCache' = shortCache \ {key}
    /\ mediumCache' = mediumCache \ {key}
    /\ longCache' = longCache \ {key}
    /\ UNCHANGED <<engine, smsService, sync, auth>>

InitCache == EngineIdle /\ ServiceIdle

NextCache ==
    \/ \E userId \in Users, success \in BOOLEAN :
          \/ cacheUserProfile(userId, success)
          \/ cacheCreditScore(userId, success)
          \/ cacheLoanEligibility(userId, success)
          \/ cacheDashboard(userId, success)
    \/ \E userId \in Users : invalidateUserCache(userId)
    \/ \E userId \in Users : invalidateCreditCache(userId)
    \/ \E key \in CacheKeys : CacheExpires(key)

SpecCache == InitCache /\ [][NextCache]_vars

-----------------------------------------------------------------------------
(* Properties of calculateAlternativeCreditScore, checked under Spec *)

Caller == inv["u1"]
Result == inv["u1"].analysis
Returned == inv["u1"].pc = "done"
Has(conditions, c) == \E i \in 1..Len(conditions) : conditions[i] = c
EmptyInput(userData) ==
    /\ LenOrZero(userData.smsData) = 0
    /\ LenOrZero(userData.upiData) = 0
    /\ LenOrZero(userData.mobileData) = 0

C6_TierOfScore ==
    LET agree(d) ==
            /\ d.alternativeCreditScore >= 750 => d.riskCategory = "low"
            /\ d.alternativeCreditScore \in 600..749 => d.riskCategory = "medium"
            /\ d.alternativeCreditScore < 600 => d.riskCategory = "high"
    IN  /\ Returned => agree(Result)
        /\ \A u \in Users : \A i \in 1..Len(db[u]) : agree(db[u][i])

C6_Witness ==
    /\ Returned
    /\ Result.alternativeCreditScore = 750
    /\ Result.riskCategory = "low"
    /\ db["u1"] = <<Result>>

C9_NeverThrows == \A u \in Users : inv[u].pc # "failed"

\* C12: the confidence of a returned result is, in hundredths,
\* min(100, 30 + 20 if more than 50 SMS records were supplied + 20 if the UPI
\* monthly count is above 10 + 10 if the recharge frequency is above 5).
C12_ConfidenceOfVolume ==
    Returned =>
        Result.confidenceLevel =
            Min(100,
                30 + (IF LenOrZero(Caller.userData.smsData) > 50 THEN 20 ELSE 0)
                   + (IF Result.upiAnalysis.monthlyTransactionCount > 10 THEN 20 ELSE 0)
                   + (IF Result.mobileUsage.rechargeFrequency > 5 THEN 10 ELSE 0))

-----------------------------------------------------------------------------
(* Properties of the document's methods, checked under SpecDoc *)

\* C4: after calculateCreditScore the stored score is
\* round(300 + 6 * (sum of score * weight / sum of weight)) with both sums
\* taken over all five components, a component scoring 0 included, and
\* lies in 300..900.
C4_AllFiveWeighted ==
    doc.pc = "calculateCreditScore" =>
        LET c == doc.d.creditScoreComponents
            names == {ComponentNames[i] : i \in 1..Len(ComponentNames)}
            weighted == SumOver(names, [k \in names |-> c[k].score * c[k].weight])
            weights == SumOver(names, [k \in names |-> c[k].weight])
        IN  /\ doc.d.alternativeCreditScore = (2 * (300 * weights + 6 * weighted) + weights)
                                                 \div (2 * weights)
            /\ doc.d.alternativeCreditScore \in 300..900

\* C5: after generateLoanRecommendation on a document that holds a score,
\* the recommendation is the row of the decision table the score falls in:
\* below 600 not eligible with exactly the two conditions; 600..649 gives
\* 25000, 15000, 18, 12; 650..749 gives 50000, 25000, 15, 18; from 750 gives
\* 100000, 50000, 12, 24.
C5_DecisionTable ==
    (doc.pc = "generateLoanRecommendation" /\ doc.d.alternativeCreditScore >= 0) =>
        LET score == doc.d.alternativeCreditScore
            r == doc.d.loanRecommendation
            row == <<r.eligible, r.maxLoanAmount, r.recommendedAmount, r.suggestedInterestRate,
                     r.maxTenure>>
        IN  /\ score < 600 =>
                   /\ ~r.eligible
                   /\ r.conditions = <<"Credit score too low for loan approval",
                                       "Consider building credit history">>
            /\ score \in 600..649 => row = <<TRUE, 25000, 15000, 18, 12>>
            /\ score \in 650..749 => row = <<TRUE, 50000, 25000, 15, 18>>
            /\ score >= 750 => row = <<TRUE, 100000, 50000, 12, 24>>

C5_Witness ==
    /\ doc.pc = "generateLoanRecommendation"
    /\ doc.d.alternativeCreditScore = 750
    /\ doc.d.loanRecommendation.maxLoanAmount = 100000
    /\ doc.d.loanRecommendation.maxTenure = 24

RaisedScores == MainScores \cup LastScores \cup {1}

\* C23: with the other four component scores fixed, raising the score of one
\* component, from 0 or from any other value, never lowers the value
\* calculateCreditScore computes.
C23_Monotone ==
    doc.pc = "calculateCreditScore" =>
        \A i \in 1..Len(ComponentNames), v \in RaisedScores :
            LET k == ComponentNames[i]
                raised == [doc.d EXCEPT !.creditScoreComponents[k].score = v]
            IN  v > doc.d.creditScoreComponents[k].score =>
                    CreditScoreValue(raised) >= CreditScoreValue(doc.d)

-----------------------------------------------------------------------------
(* Properties of the extractors, checked under SpecExt *)

\* C8: the summary analyzeSMSTransactions returns for a list that holds one
\* record it cannot parse among well-formed ones is the summary of the
\* well-formed records alone.
C8_MalformedDropped ==
    (ext.pc = "returned" /\ ext.fn = "analyzeSMSTransactions" /\ ext.data # Undefined) =>
        LET bad == {i \in 1..Len(ext.data) : SmsRecordThrows(ext.data[i].rec)}
            good == SelectSeq(ext.data, LAMBDA run : ~SmsRecordThrows(run.rec))
        IN  (Cardinality(bad) = 1 /\ \A i \in bad : ext.data[i].n = 1) =>
                ext.out = analyzeSMSTransactions(good)

\* C10: called with no list or with an empty one, each extractor returns the
\* default summary of its source, with every field of the summary present
\* and every score of it strictly between 0 and 100.
C10_DefaultSummaries ==
    (ext.pc = "returned" /\ (ext.data = Undefined \/ ext.data = <<>>)) =>
        LET out == ext.out
            between(x) == 0 < x /\ x < 100
        IN  /\ ext.fn = "analyzeSMSTransactions" =>
                   /\ DOMAIN out = {"totalTransactions", "creditTransactions",
                                    "debitTransactions", "averageBalance", "balanceStability",
                                    "regularityScore", "merchantDiversity", "salaryCredits",
                                    "recurringPayments"}
                   /\ between(out.balanceStability) /\ between(out.regularityScore)
                   /\ between(out.merchantDiversity)
                   /\ out.totalTransactions = 0 /\ out.salaryCredits = {}
            /\ ext.fn = "analyzeUPITransactions" =>
                   /\ DOMAIN out = {"monthlyTransactionCount", "averageTransactionAmount",
                                    "totalVolume", "paymentRegularity", "digitalFootprintScore",
                                    "merchantCategories", "peakTransactionHours",
                                    "weekdayVsWeekendRatio"}
                   /\ between(out.paymentRegularity) /\ between(out.digitalFootprintScore)
                   /\ out.monthlyTransactionCount = 0 /\ out.totalVolume = 0
            /\ ext.fn = "analyzeMobileUsage" =>
                   /\ DOMAIN out = {"rechargeFrequency", "averageRechargeAmount", "planType",
                                    "dataUsagePattern", "consistencyScore"}
                   /\ between(out.consistencyScore)
                   /\ out.rechargeFrequency = 0 /\ out.planType = "unknown"

C10_Witness ==
    /\ ext.pc = "returned"
    /\ ext.fn = "analyzeMobileUsage"
    /\ ext.data = <<>>
    /\ ext.out.consistencyScore = 30

-----------------------------------------------------------------------------
(* Properties of the calls of two users, checked under SpecPair *)

C17_UsersIndependent ==
    \A u \in Users :
        /\ inv[u].pc = "idle" => db[u] = <<>>
        /\ inv[u].pc = "done" =>
               /\ db[u] = <<inv[u].analysis>>
               /\ inv[u].analysis.userId = u
               /\ inv[u].isNew =>
                      inv[u].analysis = Scored(NewCreditAnalysis(u), inv[u].userData)

C17_Witness ==
    /\ inv["u1"].pc = "done" /\ inv["u2"].pc = "done"
    /\ inv["u1"].isNew /\ inv["u2"].isNew
    /\ inv["u1"].userData # inv["u2"].userData
    /\ db["u1"][1].alternativeCreditScore # db["u2"][1].alternativeCreditScore

-----------------------------------------------------------------------------
(* Properties of the functions of summaries, checked under SpecFn *)

FnReturned(fn) == ext.pc = "returned" /\ ext.fn = fn
OfType(list, t) == {i \in 1..Len(list) : list[i].type = t}

\* C13: identifyRedFlags returns a high-severity low_balance_stability flag
\* of negative impact exactly when balanceStability < 30 and a
\* medium-severity low_digital_usage flag exactly when
\* digitalFootprintScore < 20, and nothing else; identifyPositiveIndicators
\* returns a high-strength regular_salary indicator exactly when a salary
\* credit was detected and a medium-strength high_digital_engagement
\* indicator exactly when digitalFootprintScore > 70, and nothing else.
C13_SignalThresholds ==
    LET bs == ext.data.smsAnalysis.balanceStability
        fp == ext.data.upiAnalysis.digitalFootprintScore
        out == ext.out
        one(t, when) == Cardinality(OfType(out, t)) = (IF when THEN 1 ELSE 0)
    IN  /\ FnReturned("identifyRedFlags") =>
               /\ one("low_balance_stability", bs \in 0..29)
               /\ one("low_digital_usage", fp \in 0..19)
               /\ \A i \in OfType(out, "low_balance_stability") :
                      out[i].severity = "high" /\ out[i].impact < 0
               /\ \A i \in OfType(out, "low_digital_usage") : out[i].severity = "medium"
               /\ \A i \in 1..Len(out) :
                      out[i].type \in {"low_balance_stability", "low_digital_usage"}
        /\ FnReturned("identifyPositiveIndicators") =>
               /\ one("regular_salary", ext.data.smsAnalysis.salaryCredits # {})
               /\ one("high_digital_engagement", fp >= 71)
               /\ \A i \in OfType(out, "regular_salary") : out[i].strength = "high"
               /\ \A i \in OfType(out, "high_digital_engagement") :
                      out[i].strength = "medium"
               /\ \A i \in 1..Len(out) :
                      out[i].type \in {"regular_salary", "high_digital_engagement"}

C13_Witness ==
    /\ FnReturned("identifyRedFlags")
    /\ ext.data.smsAnalysis.balanceStability = 30
    /\ ext.data.upiAnalysis.digitalFootprintScore = 19
    /\ Len(ext.out) = 1
    /\ ext.out[1].type = "low_digital_usage"

\* C14: calculateScoreComponents returns exactly the five components
\* transactionBehavior, paymentRegularity, digitalEngagement,
\* financialStability and socialSignals, with the weights 0.25, 0.20, 0.20,
\* 0.25 and 0.10 (in hundredths), which sum to 1, whatever its input.
C14_FixedWeights ==
    FnReturned("calculateScoreComponents") =>
        /\ DOMAIN ext.out = {"transactionBehavior", "paymentRegularity", "digitalEngagement",
                             "financialStability", "socialSignals"}
        /\ ext.out.transactionBehavior.weight = 25
        /\ ext.out.paymentRegularity.weight = 20
        /\ ext.out.digitalEngagement.weight = 20
        /\ ext.out.financialStability.weight = 25
        /\ ext.out.socialSignals.weight = 10
        /\ SumOver(DOMAIN ext.out, [k \in DOMAIN ext.out |-> ext.out[k].weight]) = 100

C14_Witness ==
    /\ FnReturned("calculateScoreComponents")
    /\ ext.data.smsAnalysis.regularityScore = 100
    /\ ext.data.userData.helper.social = 100
    /\ ext.out.socialSignals = [score |-> 100, weight |-> 10]

C16_StabilityInRange ==
    FnReturned("calculateBalanceStability") =>
        LET readings == SumOver(1..Len(ext.data), [i \in 1..Len(ext.data) |-> ext.data[i].n])
        IN  /\ ext.out \in 0..100
            /\ readings < 2 => ext.out = 50

\* C26: whatever the order of the steps of two calls for one userId, at most
\* one CreditAnalysis record is stored for the user.
C26_OneRecord == \A u \in Users : Len(db[u]) <= 1

-----------------------------------------------------------------------------
(* Properties of the routes, checked under SpecWeb *)

ScoringRoutes == {"analyze-sms", "analyze-upi", "score"}

\* The step is a scoring request that reached calculateAlternativeCreditScore.
EngineCalled == web'.last.route \in ScoringRoutes /\ web'.last.status \in {200, 500}

\* The userData the engine was called with.
Passed == inv[WebUser].userData

LatestAnalysis == db[WebUser][1]

\* C18: a scoring request passes SMS records to calculateAlternativeCreditScore
\* only when smsAnalysisConsent is true and UPI records only when
\* upiAnalysisConsent is true, and a request to /analyze-sms or /analyze-upi
\* without the consent it needs is answered 403 and leaves the stored analysis
\* and the user's credit score as they were.
C18_ConsentGated ==
    [][/\ EngineCalled =>
            /\ Passed'.smsData # Undefined => web.user.smsAnalysisConsent
            /\ Passed'.upiData # Undefined => web.user.upiAnalysisConsent
       /\ (\/ web'.last.route = "analyze-sms" /\ ~web.user.smsAnalysisConsent
           \/ web'.last.route = "analyze-upi" /\ ~web.user.upiAnalysisConsent) =>
            /\ web'.last.status \in {400, 403}
            /\ db' = db
            /\ web'.user = web.user]_vars

\* POST /score with SMS and UPI records, by a user who consented to UPI only:
\* the engine received the UPI records and no SMS records.
C18_Witness ==
    /\ web.last.route = "score" /\ web.last.status = 200
    /\ ~web.user.smsAnalysisConsent /\ web.user.upiAnalysisConsent
    /\ Passed.smsData = Undefined
    /\ Passed.upiData = manyUpi

\* C19: every loan POST /apply constructs or stores has an amount of at most
\* the maxLoanAmount of the latest analysis, and that analysis is eligible
\* with a score of at least 600.
C19_WithinLimit ==
    [][(web'.last.route = "apply" /\ web'.last.loan # NoLoan) =>
          /\ db[WebUser] # <<>>
          /\ web'.last.loan.amount <= LatestAnalysis.loanRecommendation.maxLoanAmount
          /\ LatestAnalysis.loanRecommendation.eligible
          /\ LatestAnalysis.alternativeCreditScore >= 600
          /\ web'.loans \in {web.loans, Append(web.loans, web'.last.loan)}]_vars

\* An application above the limit of an eligible analysis, refused with 400
\* and no loan.
C19_Witness ==
    /\ web.last.route = "apply" /\ web.last.status = 400
    /\ db[WebUser] # <<>>
    /\ LatestAnalysis.loanRecommendation.eligible
    /\ web.last.amount > LatestAnalysis.loanRecommendation.maxLoanAmount
    /\ web.last.loan = NoLoan
    /\ web.loans = <<>>

\* C20: an application that passes the checks of POST /apply is answered 201
\* and creates a loan that is 'approved' exactly when the latest analysis has
\* a score of at least 650 and a confidence of at least 0.7, 'rejected' exactly
\* when that does not hold and the score is below 500, and 'under_review'
\* otherwise.
C20_StatusByRule ==
    (web.last.route = "apply" /\ web.last.loan # NoLoan) =>
        LET loan == web.last.loan
            strong == LatestAnalysis.alternativeCreditScore >= 650
                      /\ LatestAnalysis.confidenceLevel >= 70
        IN  /\ web.last.status = 201
            /\ web.loans # <<>> /\ web.loans[Len(web.loans)] = loan
            /\ loan.status = "approved" <=> strong
            /\ loan.status = "rejected" <=> (~strong /\ LatestAnalysis.alternativeCreditScore < 500)
            /\ loan.status \in {"approved", "rejected", "under_review"}

\* C24: the user's currentLoanAmount is above 0 only if a loan with status
\* approved or disbursed is stored for the user, and totalLoansApproved is at
\* most totalLoansApplied: a POST /apply that stores no loan leaves the three
\* counters as they were.
C24_CountersFollowLoans ==
    /\ web.user.currentLoanAmount > 0 =>
          \E i \in 1..Len(web.loans) : web.loans[i].status \in {"approved", "disbursed"}
    /\ web.user.totalLoansApproved <= web.user.totalLoansApplied

-----------------------------------------------------------------------------
(* Properties of the OTP service, checked under SpecOtp *)

\* The step is a verifyOTP call for phone p that returned true.
Accepted(p) == otpLog'[p].accepts > otpLog[p].accepts

-----------------------------------------------------------------------------
(* Properties of the sync queue, checked under SpecSync *)

\* C22: an item whose processing has failed every time is no longer in the
\* sync queue once it has failed 3 times; after its first and second failure
\* it is queued with retryCount 1 and 2.
C22_RemovedAfterThree ==
    \A key \in SyncKeys :
        ~syncLog[key].completed =>
            /\ syncLog[key].failed \in {1, 2} =>
                  (syncQueue[key] # NoItem /\ syncQueue[key].retryCount = syncLog[key].failed)
            /\ syncLog[key].failed >= 3 => syncQueue[key] = NoItem

\* C27: an item queued by handleOfflineRequest is marked completed only
\* after its request has been sent to the server.
C27_SentBeforeCompleted ==
    \A key \in SyncKeys :
        (syncLog[key].action = "api_request" /\ syncLog[key].completed) =>
            syncLog[key].sent >= 1

-----------------------------------------------------------------------------
(* Properties of the authentication routes, checked under SpecAuth *)

\* C25: POST /verify-otp issues a token for a phone only when the OTP it
\* accepts was sent by a POST /login that passed the password and device
\* checks, or by the registration of the phone.
C25_TokenNeedsPassword ==
    [][\A p \in Phones :
          auth'[p].log.tokens > auth[p].log.tokens =>
              /\ auth[p].log.origin \in {"login", "register"}
              /\ auth[p].log.passed]_vars

-----------------------------------------------------------------------------
(* Properties of the response caches, checked under SpecCache *)

\* C28: when invalidateCreditCache(userId) has returned, no cache holds an
\* entry under credit_score_<userId>, loan_eligibility_<userId> or
\* dashboard_<userId>.
C28_CreditKeysGone ==
    [][\A userId \in Users :
          invalidateCreditCache(userId) =>
              \A name \in {"credit_score", "loan_eligibility", "dashboard"} :
                  <<name, userId>> \notin (shortCache' \cup mediumCache' \cup longCache')]_vars

=============================================================================
